---- MODULE Spec2Model ----
(***************************************************************************)
(* The agent session registry of arcan (arcan.api.session): ArcanSession,  *)
(* its weak registry of ArcanAgent handles, the chat_history and           *)
(* conversation tables, and run_agent, the driver of one turn.             *)
(*                                                                         *)
(* Python objects are modelled with their identity: a handle is an object  *)
(* id, and the list a handle's chat_history refers to is a list id, so     *)
(* that two handles referring to one list are visible.  List 0 is the      *)
(* list object that ArcanAgent.__init__ evaluates once for its default     *)
(* argument context=[].                                                    *)
(*                                                                         *)
(* run_agent calls agent.get_response(user_content=query); the ArcanAgent  *)
(* class of arcan.ai.agents records a turn in invoke (lines 110-135), and  *)
(* that body is what the inference steps below follow.                     *)
(*                                                                         *)
(* Three specifications share the state: Spec, turns served concurrently;  *)
(* SpecSeq, one thread calling get_or_create_agent directly; SpecStore,    *)
(* one thread calling store_chat_history and get_chat_history directly.    *)
(* SpecApi is Spec under every value of ENVIRONMENT.                       *)
(*                                                                         *)
(* The other services of the repository have each their own variables and  *)
(* their own specification: SpecScope (arcan.api.datamodel.engine,         *)
(* session_scope), SpecConv and SpecHist (the conversation and             *)
(* chat-history routes of arcan.forge), SpecHandler (its exception         *)
(* handlers), SpecManager (its DatabaseSessionManager) and SpecAgents      *)
(* (the agents service and router of apps/api).                            *)
(***************************************************************************)
EXTENDS Integers, Sequences, FiniteSets, TLC

\* ------------------------------------------------------------- bounds
MaxTurns == 2      \* run_agent calls
MaxSessions == 2   \* ArcanSession objects constructed
MaxHandles == 3    \* ArcanAgent objects constructed
MaxCalls == 3      \* get_or_create_agent calls made outside run_agent
MaxOps == 3        \* store_chat_history and get_chat_history calls made by callers
MaxLen == 2        \* messages in a transcript a caller passes to store_chat_history
MaxScopes == 3     \* uses of session_scope
MaxRequests == 3   \* requests to the forge conversation routes
MaxRows == 3       \* rows of the forge tables conversations and chat_history
MaxHistOps == 3    \* forge chat-history operations
MaxHandled == 3    \* exceptions given to the forge exception handlers
MaxDbSessions == 2 \* sessions and connections the DatabaseSessionManager hands out
MaxMgrCalls == 4   \* calls of the DatabaseSessionManager
MaxAgentOps == 3   \* AgentService calls and agents-router requests

\* The threads of the host that run turns: at most one turn each at a time.
Workers == {"w1", "w2"}

Users == {"alice", "bob"}
Turns == 1..MaxTurns
Sessions == 1..MaxSessions
Handles == 1..MaxHandles

NoAgent == 0            \* Python None where a handle is expected
NoUser == "none"        \* Python None where a user_id is expected
DefaultContext == 0     \* the list object of the default argument context=[]
NoRow == [present |-> FALSE, history |-> [repr |-> "", body |-> <<>>]]

InferenceErrors == {"LLMError", "ToolError"}
StorageOutcomes == {"ok", "SQLAlchemyError", "OtherError"}
RollbackError == "RollbackError"

VARIABLES
    agents,            \* ArcanSession.agents of each session: user_id -> handle
    n_sessions,        \* ArcanSession objects constructed so far
    handle,            \* ArcanAgent objects: state, user_id, chat_history (a list id)
    lists,             \* the list objects: list id -> sequence of messages
    held,              \* handles a caller of get_or_create_agent still references
    chat_history_tbl,  \* table chat_history: sender -> row
    conversation,      \* table conversation: the records, in insertion order
    turn,              \* each run_agent call: its position and locals
    call,              \* a caller's latest get_or_create_agent call: arguments and result
    n_calls,           \* get_or_create_agent calls made outside run_agent
    op,                \* a caller's latest store_chat_history / get_chat_history call
    n_ops,             \* store_chat_history and get_chat_history calls made by callers
    ENVIRONMENT,       \* arcan.api: os.environ.get("ENVIRONMENT"), read at import
    scope,             \* arcan.api.datamodel.engine: the latest use of session_scope
    conversations,     \* arcan.forge: table conversations, id -> row
    conv_reply,        \* arcan.forge: the latest reply of a conversation route
    chat_histories,    \* arcan.forge: table chat_history, the rows in insertion order
    hist_reply,        \* arcan.forge: the latest reply of a chat-history operation
    detail,            \* arcan.forge: the dict `detail` of each exception handler built
    handler_reply,     \* arcan.forge: the latest response of an exception handler
    sessionmanager,    \* arcan.forge: the DatabaseSessionManager object
    db_sessions,       \* arcan.forge: the AsyncSession objects session() has made
    mgr_reply,         \* arcan.forge: the outcome of the latest manager call
    agent_rows,        \* apps/api: table agents, id -> row
    agents_reply       \* apps/api: the latest result of a service call or a request

\* The state of each service beside the session registry.
convVars == <<conversations, conv_reply>>
histVars == <<chat_histories, hist_reply>>
handlerVars == <<detail, handler_reply>>
managerVars == <<sessionmanager, db_sessions, mgr_reply>>
agentVars == <<agent_rows, agents_reply>>
aux == <<scope, convVars, histVars, handlerVars, managerVars, agentVars>>

\* The state of the session registry, its tables and its callers.
core == <<agents, n_sessions, handle, lists, held, chat_history_tbl,
          conversation, turn, call, n_calls, op, n_ops, ENVIRONMENT>>

vars == <<core, aux>>

\* ----------------------------------------------------------- messages
SystemMessage(c) == [type |-> "system", content |-> c]
HumanMessage(c) == [type |-> "human", content |-> c]
AIMessage(c) == [type |-> "ai", content |-> c]

\* The query and the inference output of turn t; "" is the empty query.
QueryOf(t) == "q" \o ToString(t)
OutputOf(t) == "r" \o ToString(t)
Queries(t) == {"", QueryOf(t)}
RouteText == "route"

\* ------------------------------------------------------ serialization
\* pickle.dumps: the list as a byte string, one frame per message.
PickleDumps(T) == [bytes |-> [i \in 1..Len(T) |-> <<T[i].type, T[i].content>>]]
\* str(bytes): the repr of the byte string, "b'...'".
Str_Mutant(b) == [repr |-> "", body |-> b.bytes]
Str(b) == [repr |-> "b'", body |-> b.bytes]
\* ast.literal_eval succeeds on the repr of a byte string only.
LiteralEvalOk(s) == s.repr = "b'"
LiteralEval(s) == [bytes |-> s.body]
\* pickle.loads: the frames back to messages.
PickleLoads(b) == [i \in 1..Len(b.bytes) |-> [type |-> b.bytes[i][1], content |-> b.bytes[i][2]]]

Serialize(T) == Str(PickleDumps(T))
Deserialize(s) == PickleLoads(LiteralEval(s))

\* ---------------------------------------------------------- registry
IsLive(h) == h # NoAgent /\ handle[h].state = "live"

\* The conversation state of a handle: the content of the list it refers to.
ChatHistoryOf(h) == lists[handle[h].chat_history]

\* A handle is strongly referenced by the run_agent frames that hold it in
\* their local `agent`, and by callers that kept get_or_create_agent's result.
ActivePc == {"invoke", "infer", "store_message", "pickle", "upsert"}
StronglyReferenced(h) ==
    \/ h \in held
    \/ \E t \in Turns : turn[t].pc \in ActivePc /\ turn[t].agent = h

HasFreeHandle == \E h \in Handles : handle[h].state = "unborn"
NextHandle == CHOOSE h \in Handles :
    /\ handle[h].state = "unborn"
    /\ \A g \in Handles : g < h => handle[g].state # "unborn"

\* get_chat_history: the first row of the user, deserialized; [] without a row.
GetChatHistoryRaises_Mutant(u) == FALSE
GetChatHistoryRaises(u) ==
    chat_history_tbl[u].present /\ ~LiteralEvalOk(chat_history_tbl[u].history)
GetChatHistory(u) ==
    IF ~chat_history_tbl[u].present THEN <<>>
    ELSE Deserialize(chat_history_tbl[u].history)

\* get_or_create_agent lines 41-47: chat_history = [], replaced by the loaded
\* history unless get_chat_history raises (storage error or bad payload).
LoadedHistory(u, dbok) ==
    IF dbok /\ ~GetChatHistoryRaises(u) THEN GetChatHistory(u) ELSE <<>>

\* get_or_create_agent lines 49-63: which branch of the if/elif chain runs.
SelectAgent_Mutant(agent, chat_history) ==
    IF chat_history = <<>> THEN "new"
    ELSE IF agent # NoAgent THEN "existing" ELSE "reload"
SelectAgent_PrefersStore(agent, chat_history) ==
    IF chat_history # <<>> THEN "reload"
    ELSE IF agent = NoAgent THEN "new" ELSE "none"
SelectAgent(agent, chat_history) ==
    IF agent # NoAgent /\ chat_history # <<>> THEN "existing"
    ELSE IF agent = NoAgent /\ chat_history # <<>> THEN "reload"
    ELSE IF agent = NoAgent /\ chat_history = <<>> THEN "new"
    ELSE "none"

\* ArcanAgent.__init__ line 70, self.chat_history = context: the list passed
\* as context (a fresh list, id `new`) or the default argument's list.
ContextList_Mutant(branch, new) == DefaultContext
ContextList(branch, new) ==
    IF branch = "reload" THEN new ELSE DefaultContext

ArcanAgent(context, user_id) ==
    [state |-> "live", user_id |-> user_id, chat_history |-> context]

\* get_or_create_agent(user_id, provided_agent) on session s: the branch
\* taken and the handle returned.  dbok: whether the storage answers the query.
BranchOf_Mutant(s, u, provided, dbok) ==
    SelectAgent(agents[s][u], LoadedHistory(u, dbok))
BranchOf(s, u, provided, dbok) ==
    IF provided # NoAgent THEN "provided"
    ELSE SelectAgent(agents[s][u], LoadedHistory(u, dbok))
ResultOf_Mutant(s, u, provided, dbok) ==
    LET branch == BranchOf(s, u, provided, dbok)
    IN  IF branch = "provided" THEN provided
        ELSE IF branch \in {"reload", "new"} THEN NextHandle
        ELSE IF branch = "existing" THEN agents[s][u]
        ELSE NoAgent
ResultOf(s, u, provided, dbok) ==
    LET branch == BranchOf(s, u, provided, dbok)
    IN  IF branch = "provided" THEN provided
        ELSE IF branch \in {"reload", "new"} THEN NextHandle
        ELSE agents[s][u]

\* get_or_create_agent(user_id, provided_agent) on session s: its effects.
\* Lines 65 and 70 register the handle returned under user_id.
GetOrCreateAgent(s, u, provided, dbok) ==
    LET chat_history == LoadedHistory(u, dbok)
        branch == BranchOf(s, u, provided, dbok)
        creates == branch \in {"reload", "new"}
        new == NextHandle
    IN  /\ creates => HasFreeHandle
        /\ handle' = IF branch = "provided"
                       THEN [handle EXCEPT ![provided].user_id = u]
                     ELSE IF creates
                       THEN [handle EXCEPT ![new] = ArcanAgent(ContextList(branch, new), u)]
                     ELSE handle
        /\ lists' = IF branch = "reload"
                      THEN [lists EXCEPT ![new] = chat_history]
                    ELSE lists
        /\ agents' = [agents EXCEPT ![s][u] = ResultOf(s, u, provided, dbok)]

\* --------------------------------------------------------------- turns
NoResult == [kind |-> "none", value |-> ""]
Return(v) == [kind |-> "return", value |-> v]
Raise(e) == [kind |-> "raise", value |-> e]
NoPickle == [repr |-> "", body |-> <<>>]

\* A run_agent call: its position, its arguments and locals (sess, user, query,
\* agent, response, pickled), and what its caller saw of it (result), with
\* load_error: get_or_create_agent caught an exception of get_chat_history;
\* calls: get_response calls made; inferred: get_response returned;
\* raised: the exception get_response raised; logged: store_message
\* committed; stored: store_chat_history committed (pickled is then what it
\* wrote).
IdleTurn == [pc |-> "idle", sess |-> 0, user |-> NoUser, query |-> "",
             agent |-> NoAgent, load_error |-> FALSE, response |-> "",
             inferred |-> FALSE, raised |-> "", result |-> NoResult,
             pickled |-> NoPickle, calls |-> 0, stored |-> FALSE, logged |-> FALSE]

\* A caller's get_or_create_agent call: its arguments, the registry entry it
\* found for the user (before) and the handle it returned (result).
NoCall == [made |-> FALSE, sess |-> 0, user |-> NoUser, provided |-> NoAgent,
           before |-> NoAgent, result |-> NoAgent]

\* A caller's store_chat_history or get_chat_history call: its name, its
\* arguments (user, and the transcript stored), the row of the user it found
\* (before), the exception it raised ("" when it returned) and what it returned.
NoOp == [name |-> "none", user |-> NoUser, transcript |-> <<>>, before |-> NoRow,
         raised |-> "", result |-> <<>>]

\* What an earlier run of the process left in the chat_history table for a
\* user: nothing, or the transcript of one turn as run_agent stores it.
EarlierTranscript ==
    <<SystemMessage(RouteText), HumanMessage("q0"), AIMessage("r0")>>
EarlierRows == {NoRow, [present |-> TRUE, history |-> Serialize(EarlierTranscript)]}

\* ------------------------------------------- the other services: state
\* arcan.api line 47: the values os.environ.get("ENVIRONMENT") can have;
\* "unset" is None.
Environments == {"cloud", "local", "unset", "staging"}

\* A use of session_scope (engine.py lines 42-53): where it is, what its body
\* wrote to the session (pending), how its body ended (body: "" while it
\* runs, "ok", or the exception raised), the calls made on the session, the
\* exception that left session_scope (raised), and the values the database
\* holds committed (store).
NoScope == [pc |-> "idle", n |-> 0, pending |-> {}, body |-> "",
            commits |-> 0, rollbacks |-> 0, closes |-> 0, raised |-> "",
            store |-> {}]

\* arcan.forge, tables conversations and chat_history: ids are integers
\* assigned in insertion order; user ids are integers too.
RowIds == 1..MaxRows
ForgeUsers == {1, 2}
NoConv == [present |-> FALSE, user_id |-> 0, message |-> ""]
NoConvReply == [seq |-> 0, route |-> "none", conversation_id |-> 0, user |-> 0,
                status |-> 0, error |-> ""]
NoHistReply == [seq |-> 0, operation |-> "none", user |-> 0, matched |-> 0,
                status |-> 0, error |-> ""]

\* arcan.forge lines 105-154: two of the handlers the application registers,
\* each with the status code and the initial detail it was built with.
HandlerNames == {"EntityDoesNotExistError", "ServiceError"}
StatusCodeOf(h) == IF h = "EntityDoesNotExistError" THEN 404 ELSE 500
InitialDetailOf(h) ==
    IF h = "EntityDoesNotExistError" THEN "Entity does not exist."
    ELSE "A service seems to be down, try again later."
NoHandlerReply == [seq |-> 0, handler |-> "none", message |-> "", name |-> "",
                   status_code |-> 0, detail |-> <<>>]

\* arcan.forge.database.session: the sessions and connections handed out, with
\* the rollback calls made on each, whether one succeeded, and the close calls.
DbSessionIds == 1..MaxDbSessions
NoDbSession == [state |-> "unborn", kind |-> "", rollbacks |-> 0,
                rolled_back |-> FALSE, closes |-> 0]
NoMgrReply == [seq |-> 0, call |-> "none", id |-> 0, body |-> "", raised |-> ""]

\* apps/api: agent ids and tenant ids are UUIDs; TEMP_TENANT_ID is the tenant
\* of every request of the router (routes/agents line 18).
AgentIds == {"a1", "a2"}
TEMP_TENANT_ID == "tenant1"
Tenants == {TEMP_TENANT_ID, "tenant2"}
NoAgentRow == [present |-> FALSE, tenant_id |-> "", name |-> ""]
NoAgentsReply == [seq |-> 0, operation |-> "none", agent_id |-> "", tenant_id |-> "",
                  found |-> FALSE, method |-> "", path |-> "", handler |-> "",
                  status |-> 0]

AuxInit ==
    /\ scope = NoScope
    /\ conversations = [i \in RowIds |-> NoConv]
    /\ conv_reply = NoConvReply
    /\ chat_histories = <<>>
    /\ hist_reply = NoHistReply
    /\ detail = [h \in HandlerNames |-> <<InitialDetailOf(h)>>]
    /\ handler_reply = NoHandlerReply
    /\ sessionmanager = [engine |-> TRUE, sessionmaker |-> TRUE]
    /\ db_sessions = [i \in DbSessionIds |-> NoDbSession]
    /\ mgr_reply = NoMgrReply
    /\ agent_rows = [a \in AgentIds |-> NoAgentRow]
    /\ agents_reply = NoAgentsReply

\* The registry, its tables and its callers before anything has run.
RegistryInit ==
    /\ agents = [s \in Sessions |-> [u \in Users |-> NoAgent]]
    /\ n_sessions = 0
    /\ handle = [h \in Handles |-> [state |-> "unborn", user_id |-> NoUser,
                                    chat_history |-> DefaultContext]]
    /\ lists = [l \in 0..MaxHandles |-> <<>>]
    /\ held = {}
    /\ chat_history_tbl \in [Users -> EarlierRows]
    /\ conversation = <<>>
    /\ turn = [t \in Turns |-> IdleTurn]
    /\ call = NoCall
    /\ n_calls = 0
    /\ op = NoOp
    /\ n_ops = 0

\* The deployment the turns run in: ENVIRONMENT is "cloud".
Init == RegistryInit /\ ENVIRONMENT = "cloud" /\ AuxInit

\* The other services at their start, beside a registry that is not used and
\* a chat_history table without rows.
InitServices == Init /\ \A u \in Users : ~chat_history_tbl[u].present

\* GET /api/chat under every value of ENVIRONMENT.
InitApi == RegistryInit /\ ENVIRONMENT \in Environments /\ AuxInit

InFlight(t) == turn[t].pc \notin {"idle", "done", "failed"}

\* Turns are started in the order of their ids, each on a free worker.
CanStart(t) ==
    /\ turn[t].pc = "idle"
    /\ IF t = 1 THEN TRUE ELSE turn[t - 1].pc # "idle"
    /\ Cardinality({x \in Turns : InFlight(x)}) < Cardinality(Workers)

\* run_agent is entered with (session, query, user_id).
Enter(t, s, u, q) ==
    [turn EXCEPT ![t] = [IdleTurn EXCEPT !.pc = "get", !.sess = s, !.user = u, !.query = q]]

\* run_agent is left: the frame and its locals are gone, the caller has `result`.
Leave(tr, pc, result) ==
    [tr EXCEPT !.pc = pc, !.result = result, !.sess = 0, !.agent = NoAgent,
               !.load_error = FALSE,
               !.pickled = IF tr.stored THEN tr.pickled ELSE NoPickle]

\* GET /api/chat, the cloud branch: a new ArcanSession, then run_agent on it.
ChatRequest(t, u, q) ==
    /\ ENVIRONMENT = "cloud"
    /\ CanStart(t)
    /\ n_sessions < MaxSessions
    /\ n_sessions' = n_sessions + 1
    /\ turn' = Enter(t, n_sessions + 1, u, q)
    /\ UNCHANGED <<agents, handle, lists, held, chat_history_tbl, conversation,
                   call, n_calls, op, n_ops, ENVIRONMENT, aux>>

\* GET /api/chat outside the cloud: with "local" line 95 names ArcanSpellsAgent,
\* which the module neither defines nor imports; with any other value no
\* branch runs and line 99 reads `response`, which was never assigned.
ChatRequestElsewhere(t, u, q) ==
    /\ ENVIRONMENT # "cloud"
    /\ CanStart(t)
    /\ turn' = [turn EXCEPT ![t] =
          Leave([IdleTurn EXCEPT !.user = u, !.query = q], "failed",
                Raise(IF ENVIRONMENT = "local" THEN "NameError"
                      ELSE "UnboundLocalError"))]
    /\ UNCHANGED <<agents, n_sessions, handle, lists, held, chat_history_tbl,
                   conversation, call, n_calls, op, n_ops, ENVIRONMENT, aux>>

\* The answer of GET /api/chat to its client: line 99 when run_agent returns,
\* the server's error response when an exception leaves the handler.
StatusOf(tr) == IF tr.result.kind = "return" THEN 200 ELSE 500
BodyOf(tr) == IF tr.result.kind = "return" THEN [response |-> tr.result.value]
              ELSE [response |-> ""]

\* run_agent(session, query, user_id) called on a session that already exists.
RunAgent(t, s, u, q) ==
    /\ CanStart(t)
    /\ s <= n_sessions
    /\ turn' = Enter(t, s, u, q)
    /\ UNCHANGED <<agents, n_sessions, handle, lists, held, chat_history_tbl,
                   conversation, call, n_calls, op, n_ops, ENVIRONMENT, aux>>

\* run_agent line 141: agent = session.get_or_create_agent(user_id).
TurnGetAgent(t, dbok) ==
    /\ turn[t].pc = "get"
    /\ GetOrCreateAgent(turn[t].sess, turn[t].user, NoAgent, dbok)
    /\ turn' = [turn EXCEPT ![t].pc = "invoke",
                            ![t].agent = ResultOf(turn[t].sess, turn[t].user, NoAgent, dbok),
                            ![t].load_error = ~dbok \/ GetChatHistoryRaises(turn[t].user)]
    /\ UNCHANGED <<n_sessions, held, chat_history_tbl, conversation, call, n_calls, op, n_ops, ENVIRONMENT, aux>>

\* What run_agent does when agent.get_response raises e: nothing catches it.
OnInferenceError_Mutant(tr, e) == [tr EXCEPT !.pc = "invoke"]
OnInferenceError_Stores(tr, e) == [tr EXCEPT !.pc = "store_message"]
OnInferenceError(tr, e) == Leave(tr, "failed", Raise(e))

\* run_agent line 143 into ArcanAgent.invoke lines 114-126: the input check,
\* then the route and the human message are appended to chat_history.
InvokeBegin(t) ==
    /\ turn[t].pc = "invoke"
    /\ IF turn[t].query = ""
         THEN /\ turn' = [turn EXCEPT ![t] =
                    OnInferenceError([turn[t] EXCEPT !.calls = @ + 1,
                                                      !.raised = "ValueError"], "ValueError")]
              /\ UNCHANGED lists
         ELSE /\ turn' = [turn EXCEPT ![t].pc = "infer", ![t].calls = @ + 1]
              /\ lists' = [lists EXCEPT ![handle[turn[t].agent].chat_history] =
                    @ \o <<SystemMessage(RouteText), HumanMessage(turn[t].query)>>]
    /\ UNCHANGED <<agents, n_sessions, handle, held, chat_history_tbl, conversation,
                   call, n_calls, op, n_ops, ENVIRONMENT, aux>>

\* ArcanAgent.invoke lines 127-135: the executor answers, and the answer is
\* appended to chat_history and returned.
InvokeReturns(t) ==
    /\ turn[t].pc = "infer"
    /\ turn' = [turn EXCEPT ![t].pc = "store_message", ![t].response = OutputOf(t),
                            ![t].inferred = TRUE]
    /\ lists' = [lists EXCEPT ![handle[turn[t].agent].chat_history] =
            @ \o <<AIMessage(OutputOf(t))>>]
    /\ UNCHANGED <<agents, n_sessions, handle, held, chat_history_tbl, conversation,
                   call, n_calls, op, n_ops, ENVIRONMENT, aux>>

\* ArcanAgent.invoke line 127: the executor raises e.
InvokeRaises(t, e) ==
    /\ turn[t].pc = "infer"
    /\ turn' = [turn EXCEPT ![t] = OnInferenceError([turn[t] EXCEPT !.raised = e], e)]
    /\ UNCHANGED <<agents, n_sessions, handle, lists, held, chat_history_tbl,
                   conversation, call, n_calls, op, n_ops, ENVIRONMENT, aux>>

\* run_agent lines 145-151: where an exception e raised by a store goes.
\* except SQLAlchemyError catches that class only; its handler calls
\* session.database.rollback(), which may raise in turn, and then run_agent
\* returns response.
AfterStoreError_Mutant(tr, e, rollback_ok) == [tr EXCEPT !.pc = "pickle"]
AfterStoreError(tr, e, rollback_ok) ==
    IF e = "SQLAlchemyError"
      THEN IF rollback_ok THEN Leave(tr, "done", Return(tr.response))
           ELSE Leave(tr, "failed", Raise(RollbackError))
      ELSE Leave(tr, "failed", Raise(e))

Conversation_Mutant(sender, message, response) ==
    [sender |-> sender, message |-> response, response |-> message]
Conversation(sender, message, response) ==
    [sender |-> sender, message |-> message, response |-> response]

\* run_agent line 146, store_message: add the record and commit.
StoreMessage(t, outcome, rollback_ok) ==
    /\ turn[t].pc = "store_message"
    /\ IF outcome = "ok"
         THEN /\ conversation' = Append(conversation,
                    Conversation(turn[t].user, turn[t].query, turn[t].response))
              /\ turn' = [turn EXCEPT ![t].pc = "pickle", ![t].logged = TRUE]
         ELSE /\ turn' = [turn EXCEPT ![t] = AfterStoreError(turn[t], outcome, rollback_ok)]
              /\ UNCHANGED conversation
    /\ UNCHANGED <<agents, n_sessions, handle, lists, held, chat_history_tbl,
                   call, n_calls, op, n_ops, ENVIRONMENT, aux>>

\* store_chat_history line 94: history = pickle.dumps(agent_history), taken
\* from the handle's list as it is at this moment.
PickleHistory(t) ==
    /\ turn[t].pc = "pickle"
    /\ turn' = [turn EXCEPT ![t].pc = "upsert",
                            ![t].pickled = Serialize(ChatHistoryOf(turn[t].agent))]
    /\ UNCHANGED <<agents, n_sessions, handle, lists, held, chat_history_tbl,
                   conversation, call, n_calls, op, n_ops, ENVIRONMENT, aux>>

\* The upsert statement of store_chat_history lines 96-110:
\* INSERT ... ON CONFLICT (sender) DO UPDATE SET history = ...
UpsertRow_Mutant(row, history) ==
    IF row.present THEN row ELSE [present |-> TRUE, history |-> history]
UpsertRow(row, history) == [present |-> TRUE, history |-> history]

\* store_chat_history lines 112-114: execute the upsert and commit; then
\* run_agent line 151 returns response.
Upsert(t, outcome, rollback_ok) ==
    /\ turn[t].pc = "upsert"
    /\ IF outcome = "ok"
         THEN /\ chat_history_tbl' = [chat_history_tbl EXCEPT ![turn[t].user] =
                    UpsertRow(@, turn[t].pickled)]
              /\ turn' = [turn EXCEPT ![t] =
                    Leave([turn[t] EXCEPT !.stored = TRUE], "done", Return(turn[t].response))]
         ELSE /\ turn' = [turn EXCEPT ![t] = AfterStoreError(turn[t], outcome, rollback_ok)]
              /\ UNCHANGED chat_history_tbl
    /\ UNCHANGED <<agents, n_sessions, handle, lists, held, conversation,
                   call, n_calls, op, n_ops, ENVIRONMENT, aux>>

\* ------------------------------------------------- callers and the GC
\* ArcanSession(database): a new session, its registry empty.
NewSession ==
    /\ n_sessions < MaxSessions
    /\ n_sessions' = n_sessions + 1
    /\ UNCHANGED <<agents, handle, lists, held, chat_history_tbl, conversation, turn,
                   call, n_calls, op, n_ops, ENVIRONMENT, aux>>

\* A caller constructs ArcanAgent() with the default arguments and keeps it.
NewAgent ==
    /\ HasFreeHandle
    /\ n_calls < MaxCalls
    /\ handle' = [handle EXCEPT ![NextHandle] = ArcanAgent(DefaultContext, NoUser)]
    /\ held' = held \cup {NextHandle}
    /\ UNCHANGED <<agents, n_sessions, lists, chat_history_tbl, conversation, turn,
                   call, n_calls, op, n_ops, ENVIRONMENT, aux>>

\* A caller calls get_or_create_agent on an existing session and keeps the result.
CallGetOrCreateAgent(s, u, provided, dbok) ==
    /\ s <= n_sessions
    /\ n_calls < MaxCalls
    /\ provided = NoAgent \/ provided \in held
    /\ GetOrCreateAgent(s, u, provided, dbok)
    /\ call' = [made |-> TRUE, sess |-> s, user |-> u, provided |-> provided,
                before |-> agents[s][u], result |-> ResultOf(s, u, provided, dbok)]
    /\ held' = held \cup {ResultOf(s, u, provided, dbok)}
    /\ n_calls' = n_calls + 1
    /\ UNCHANGED <<n_sessions, chat_history_tbl, conversation, turn, op, n_ops,
                   ENVIRONMENT, aux>>

\* A caller drops its reference to a handle.
Release(h) ==
    /\ h \in held
    /\ held' = held \ {h}
    /\ UNCHANGED <<agents, n_sessions, handle, lists, chat_history_tbl, conversation,
                   turn, call, n_calls, op, n_ops, ENVIRONMENT, aux>>

\* A handle nothing references strongly is reclaimed, and the
\* WeakValueDictionary of every session drops the entries that referred to it.
Collect(h) ==
    /\ IsLive(h)
    /\ ~StronglyReferenced(h)
    /\ handle' = [handle EXCEPT ![h] = [state |-> "dead", user_id |-> NoUser,
                                        chat_history |-> DefaultContext]]
    /\ lists' = [lists EXCEPT ![h] = <<>>]
    /\ agents' = [s \in Sessions |-> [u \in Users |->
                    IF agents[s][u] = h THEN NoAgent ELSE agents[s][u]]]
    /\ UNCHANGED <<n_sessions, held, chat_history_tbl, conversation, turn,
                   call, n_calls, op, n_ops, ENVIRONMENT, aux>>

\* ------------------------------------------- callers of the storage API
\* The transcripts a caller passes to store_chat_history: lists of at most
\* MaxLen messages.
Messages == {HumanMessage("hi"), AIMessage("hello")}
Transcripts == UNION {[1..n -> Messages] : n \in 0..MaxLen}

\* A row whose history column is not the str() of a byte string (written by
\* another program, or damaged): ast.literal_eval at line 135 rejects it.
CorruptRow == [present |-> TRUE, history |-> [repr |-> "?", body |-> <<>>]]
StoredRows == EarlierRows \cup {CorruptRow}

InitStore ==
    /\ agents = [s \in Sessions |-> [u \in Users |-> NoAgent]]
    /\ n_sessions = 0
    /\ handle = [h \in Handles |-> [state |-> "unborn", user_id |-> NoUser,
                                    chat_history |-> DefaultContext]]
    /\ lists = [l \in 0..MaxHandles |-> <<>>]
    /\ held = {}
    /\ chat_history_tbl \in [Users -> StoredRows]
    /\ conversation = <<>>
    /\ turn = [t \in Turns |-> IdleTurn]
    /\ call = NoCall
    /\ n_calls = 0
    /\ op = NoOp
    /\ n_ops = 0
    /\ ENVIRONMENT = "cloud"
    /\ AuxInit

\* A caller calls store_chat_history(user_id, agent_history), lines 87-115:
\* pickle.dumps and str, then the upsert and its commit; an exception of the
\* execute or the commit leaves the call with the table as it was.
CallStoreChatHistory(u, T, outcome) ==
    /\ n_ops < MaxOps
    /\ n_ops' = n_ops + 1
    /\ chat_history_tbl' =
          IF outcome = "ok"
            THEN [chat_history_tbl EXCEPT ![u] = UpsertRow(@, Serialize(T))]
            ELSE chat_history_tbl
    /\ op' = [name |-> "store_chat_history", user |-> u, transcript |-> T,
              before |-> chat_history_tbl[u],
              raised |-> IF outcome = "ok" THEN "" ELSE outcome,
              result |-> <<>>]
    /\ UNCHANGED <<agents, n_sessions, handle, lists, held, conversation, turn,
                   call, n_calls, ENVIRONMENT, aux>>

\* A caller calls get_chat_history(user_id), lines 117-136: the query (which
\* raises when the storage does not answer), [] without a row, otherwise
\* pickle.loads(ast.literal_eval(history)), whose exception nothing catches.
CallGetChatHistory(u, dbok) ==
    /\ n_ops < MaxOps
    /\ n_ops' = n_ops + 1
    /\ op' = [name |-> "get_chat_history", user |-> u, transcript |-> <<>>,
              before |-> chat_history_tbl[u],
              raised |-> IF ~dbok THEN "SQLAlchemyError"
                         ELSE IF GetChatHistoryRaises(u) THEN "ValueError"
                         ELSE "",
              result |-> IF dbok /\ ~GetChatHistoryRaises(u)
                           THEN GetChatHistory(u) ELSE <<>>]
    /\ UNCHANGED <<agents, n_sessions, handle, lists, held, chat_history_tbl,
                   conversation, turn, call, n_calls, ENVIRONMENT, aux>>

\* The steps of a turn that is under way.
TurnStep ==
    \/ \E t \in Turns, dbok \in BOOLEAN : TurnGetAgent(t, dbok)
    \/ \E t \in Turns : InvokeBegin(t)
    \/ \E t \in Turns : InvokeReturns(t)
    \/ \E t \in Turns, e \in InferenceErrors : InvokeRaises(t, e)
    \/ \E t \in Turns, o \in StorageOutcomes, rb \in BOOLEAN : StoreMessage(t, o, rb)
    \/ \E t \in Turns : PickleHistory(t)
    \/ \E t \in Turns, o \in StorageOutcomes, rb \in BOOLEAN : Upsert(t, o, rb)

\* Turns served concurrently by the workers of the host.
Next ==
    \/ \E t \in Turns, u \in Users : \E q \in Queries(t) : ChatRequest(t, u, q)
    \/ \E t \in Turns, s \in Sessions, u \in Users : \E q \in Queries(t) : RunAgent(t, s, u, q)
    \/ TurnStep
    \/ \E h \in Handles : Collect(h)

Spec == Init /\ [][Next]_vars

\* One thread that uses registries directly, one call at a time.
NextSeq ==
    \/ NewSession
    \/ NewAgent
    \/ \E s \in Sessions, u \in Users, p \in Handles \cup {NoAgent}, dbok \in BOOLEAN :
          CallGetOrCreateAgent(s, u, p, dbok)
    \/ \E h \in Handles : Release(h)
    \/ \E h \in Handles : Collect(h)

SpecSeq == Init /\ [][NextSeq]_vars

\* The requests to GET /api/chat, under whatever ENVIRONMENT the process has.
NextApi ==
    \/ \E t \in Turns, u \in Users : \E q \in Queries(t) : ChatRequest(t, u, q)
    \/ \E t \in Turns, u \in Users : \E q \in Queries(t) : ChatRequestElsewhere(t, u, q)
    \/ TurnStep
    \/ \E h \in Handles : Collect(h)

SpecApi == InitApi /\ [][NextApi]_vars

\* One thread that calls the storage operations of a session directly, on a
\* table that may hold rows it did not write.
NextStore ==
    \/ \E u \in Users, T \in Transcripts, o \in StorageOutcomes :
          CallStoreChatHistory(u, T, o)
    \/ \E u \in Users, dbok \in BOOLEAN : CallGetChatHistory(u, dbok)

SpecStore == InitStore /\ [][NextStore]_vars

\* ------------------------------------------------- engine.session_scope
\* What the body of a `with session_scope()` block can write, and how it can
\* end: normally, or with an exception.
ScopeValues == {"x", "y"}
BodyOutcomes == {"ok", "ValueError", "SQLAlchemyError"}
CommitError == "CommitError"

\* session_scope lines 46-53, from the moment the body has ended: commit is
\* called when the body ended normally; the bare except catches what the body
\* or the commit raised, calls rollback and re-raises, unless rollback raises
\* itself; finally closes the session.
ScopeOutcome_Mutant(body, commit_ok, rollback_ok) ==
    LET caught == IF body # "ok" THEN body ELSE IF commit_ok THEN "" ELSE CommitError
    IN  [commits |-> IF body = "ok" THEN 1 ELSE 0,
         committed |-> body = "ok" /\ commit_ok,
         rollbacks |-> IF caught # "" THEN 1 ELSE 0,
         raised |-> IF caught = "" \/ rollback_ok THEN caught ELSE RollbackError,
         closes |-> IF caught = "" THEN 1 ELSE 0]
ScopeOutcome(body, commit_ok, rollback_ok) ==
    LET caught == IF body # "ok" THEN body ELSE IF commit_ok THEN "" ELSE CommitError
    IN  [commits |-> IF body = "ok" THEN 1 ELSE 0,
         committed |-> body = "ok" /\ commit_ok,
         rollbacks |-> IF caught # "" THEN 1 ELSE 0,
         raised |-> IF caught = "" \/ rollback_ok THEN caught ELSE RollbackError,
         closes |-> 1]

\* line 45: session = SessionLocal(), and the body starts.
ScopeEnter ==
    /\ scope.pc \in {"idle", "returned"}
    /\ scope.n < MaxScopes
    /\ scope' = [NoScope EXCEPT !.pc = "body", !.n = scope.n + 1, !.store = scope.store]
    /\ UNCHANGED <<core, convVars, histVars, handlerVars, managerVars, agentVars>>

\* The body adds v to the session.
ScopeWrite(v) ==
    /\ scope.pc = "body"
    /\ v \notin scope.pending
    /\ scope' = [scope EXCEPT !.pending = @ \cup {v}]
    /\ UNCHANGED <<core, convVars, histVars, handlerVars, managerVars, agentVars>>

\* The body ends and session_scope runs to its end.
ScopeExit(body, commit_ok, rollback_ok) ==
    /\ scope.pc = "body"
    /\ LET o == ScopeOutcome(body, commit_ok, rollback_ok) IN
        scope' = [scope EXCEPT !.pc = "returned", !.body = body,
                               !.commits = o.commits, !.rollbacks = o.rollbacks,
                               !.closes = o.closes, !.raised = o.raised,
                               !.store = IF o.committed THEN @ \cup scope.pending ELSE @]
    /\ UNCHANGED <<core, convVars, histVars, handlerVars, managerVars, agentVars>>

NextScope ==
    \/ ScopeEnter
    \/ \E v \in ScopeValues : ScopeWrite(v)
    \/ \E b \in BodyOutcomes, c \in BOOLEAN, r \in BOOLEAN : ScopeExit(b, c, r)

SpecScope == InitServices /\ [][NextScope]_vars

\* --------------------------------------------- forge: conversation routes
ConvMessages == {"m1", "m2"}

\* ConversationRepository.add_conversation (lines 13-15): the row gets the
\* next id of the table.
AddConversation(u, m) ==
    /\ \E i \in RowIds : ~conversations[i].present
    /\ LET id == CHOOSE i \in RowIds :
                    /\ ~conversations[i].present
                    /\ \A j \in RowIds : j < i => conversations[j].present
       IN conversations' = [conversations EXCEPT ![id] =
                                [present |-> TRUE, user_id |-> u, message |-> m]]
    /\ UNCHANGED <<core, scope, conv_reply, histVars, handlerVars, managerVars,
                   agentVars>>

\* ConversationRepository.get_conversation(user_id) (lines 17-19): the ids of
\* the rows whose user_id equals the argument, as scalars().all() lists them.
GetConversation(user_id) ==
    {i \in RowIds : conversations[i].present /\ conversations[i].user_id = user_id}

\* The routes update_conversation and delete_conversation (lines 34-56) up to
\* their answer: both pass conversation_id to get_conversation, answer 404
\* when the list it returns is empty, and then read .user_id of the list,
\* which raises AttributeError; the statements after that are never reached.
RouteStatus(conversation_id) ==
    IF GetConversation(conversation_id) = {} THEN 404 ELSE 500
RouteError(conversation_id) ==
    IF GetConversation(conversation_id) = {} THEN "Conversation not found"
    ELSE "AttributeError"

ConvReply(route, conversation_id, user, status, error) ==
    [seq |-> conv_reply.seq + 1, route |-> route, conversation_id |-> conversation_id,
     user |-> user, status |-> status, error |-> error]

\* PUT /conversation/{conversation_id} by current_user.
UpdateConversationRoute(conversation_id, current_user, m) ==
    /\ conv_reply.seq < MaxRequests
    /\ conv_reply' = ConvReply("update_conversation", conversation_id, current_user,
                               RouteStatus(conversation_id), RouteError(conversation_id))
    /\ UNCHANGED <<core, scope, conversations, histVars, handlerVars, managerVars,
                   agentVars>>

\* DELETE /conversation/{conversation_id} by current_user.
DeleteConversationRoute(conversation_id, current_user) ==
    /\ conv_reply.seq < MaxRequests
    /\ conv_reply' = ConvReply("delete_conversation", conversation_id, current_user,
                               RouteStatus(conversation_id), RouteError(conversation_id))
    /\ UNCHANGED <<core, scope, conversations, histVars, handlerVars, managerVars,
                   agentVars>>

\* POST /conversation/ (lines 17-26): the route builds the response schema
\* Conversation without its required id and created_at, which raises
\* ValidationError before the repository is called.
CreateConversationRoute(current_user, m) ==
    /\ conv_reply.seq < MaxRequests
    /\ conv_reply' = ConvReply("create_conversation", 0, current_user, 500,
                               "ValidationError")
    /\ UNCHANGED <<core, scope, conversations, histVars, handlerVars, managerVars,
                   agentVars>>

NextConv ==
    \/ \E u \in ForgeUsers, m \in ConvMessages : AddConversation(u, m)
    \/ \E u \in ForgeUsers, m \in ConvMessages : CreateConversationRoute(u, m)
    \/ \E c \in RowIds, u \in ForgeUsers, m \in ConvMessages :
          UpdateConversationRoute(c, u, m)
    \/ \E c \in RowIds, u \in ForgeUsers : DeleteConversationRoute(c, u)

SpecConv == InitServices /\ [][NextConv]_vars

\* --------------------------------------------- forge: chat-history routes
HistTexts == {"h1", "h2"}

\* select(ChatHistory).filter_by(user_id=user_id): the positions of the rows
\* of the user. The model of the table declares no unique constraint on
\* user_id (models/chat_history.py line 21).
RowsOf(user_id) ==
    {i \in 1..Len(chat_histories) : chat_histories[i].user_id = user_id}

\* ChatHistoryRepository.get_chat_history (lines 17-19): scalar_one_or_none
\* raises MultipleResultsFound when several rows match.
RepoGetRaises(user_id) == Cardinality(RowsOf(user_id)) > 1

HistReply(operation, user, status, error) ==
    [seq |-> hist_reply.seq + 1, operation |-> operation, user |-> user,
     matched |-> Cardinality(RowsOf(user)), status |-> status, error |-> error]

\* The table without its row at position i.
WithoutRow(i) ==
    [j \in 1..(Len(chat_histories) - 1) |->
        IF j < i THEN chat_histories[j] ELSE chat_histories[j + 1]]

\* ChatHistoryRepository.add_chat_history (lines 13-15): add and commit.
AddChatHistory(u, h) ==
    /\ hist_reply.seq < MaxHistOps
    /\ Len(chat_histories) < MaxRows
    /\ chat_histories' = Append(chat_histories, [user_id |-> u, history |-> h])
    /\ hist_reply' = HistReply("add_chat_history", u, 0, "")
    /\ UNCHANGED <<core, scope, convVars, handlerVars, managerVars, agentVars>>

\* ChatHistoryRepository.get_chat_history(user_id) (lines 17-19).
RepoGetChatHistory(u) ==
    /\ hist_reply.seq < MaxHistOps
    /\ hist_reply' = HistReply("get_chat_history", u, 0,
                               IF RepoGetRaises(u) THEN "MultipleResultsFound" ELSE "")
    /\ UNCHANGED <<core, scope, convVars, chat_histories, handlerVars, managerVars,
                   agentVars>>

\* POST /chat_history/ (routes lines 15-23): the route builds the response
\* schema ChatHistory without its required id and updated_at, which raises
\* ValidationError before the repository is called.
CreateChatHistoryRoute(u, h) ==
    /\ hist_reply.seq < MaxHistOps
    /\ hist_reply' = HistReply("create_chat_history", u, 500, "ValidationError")
    /\ UNCHANGED <<core, scope, convVars, chat_histories, handlerVars, managerVars,
                   agentVars>>

\* PUT /chat_history/ (routes lines 33-41): get, 404 without a row, otherwise
\* the row's history is replaced and committed.
UpdateChatHistoryRoute(u, h) ==
    /\ hist_reply.seq < MaxHistOps
    /\ IF RepoGetRaises(u)
         THEN /\ hist_reply' = HistReply("update_chat_history", u, 500, "MultipleResultsFound")
              /\ UNCHANGED chat_histories
         ELSE IF RowsOf(u) = {}
         THEN /\ hist_reply' = HistReply("update_chat_history", u, 404, "Chat history not found")
              /\ UNCHANGED chat_histories
         ELSE /\ chat_histories' = [chat_histories EXCEPT
                    ![CHOOSE i \in RowsOf(u) : TRUE].history = h]
              /\ hist_reply' = HistReply("update_chat_history", u, 200, "")
    /\ UNCHANGED <<core, scope, convVars, handlerVars, managerVars, agentVars>>

\* DELETE /chat_history/ (routes lines 43-47, repository lines 24-28): the
\* repository deletes the user's row when there is one, and commits; the
\* route then returns {"detail": ...}, which is not a ChatHistory, so the
\* response fails its validation.
DeleteChatHistoryRoute(u) ==
    /\ hist_reply.seq < MaxHistOps
    /\ IF RepoGetRaises(u)
         THEN /\ hist_reply' = HistReply("delete_chat_history", u, 500, "MultipleResultsFound")
              /\ UNCHANGED chat_histories
         ELSE /\ chat_histories' = IF RowsOf(u) = {} THEN chat_histories
                                   ELSE WithoutRow(CHOOSE i \in RowsOf(u) : TRUE)
              /\ hist_reply' = HistReply("delete_chat_history", u, 500,
                                         "ResponseValidationError")
    /\ UNCHANGED <<core, scope, convVars, handlerVars, managerVars, agentVars>>

NextHist ==
    \/ \E u \in ForgeUsers, h \in HistTexts : AddChatHistory(u, h)
    \/ \E u \in ForgeUsers : RepoGetChatHistory(u)
    \/ \E u \in ForgeUsers, h \in HistTexts : CreateChatHistoryRoute(u, h)
    \/ \E u \in ForgeUsers, h \in HistTexts : UpdateChatHistoryRoute(u, h)
    \/ \E u \in ForgeUsers : DeleteChatHistoryRoute(u)

SpecHist == InitServices /\ [][NextHist]_vars

\* --------------------------------------------- forge: exception handlers
\* The message and the name an ArcanApiError can carry; "" is an empty one,
\* "Service is unavailable" and "ArcanApi" are the defaults of its __init__.
ExcMessages == {"", "Service is unavailable", "No such user"}
ExcNames == {"", "ArcanApi"}

\* exception_handler lines 91-95: the text of detail["message"] after the two
\* assignments, from the text d it had when the handler was called. A text is
\* the sequence of its parts, which the f-string joins with a space.
DetailAfter(d, message, name) ==
    LET d1 == IF message # "" THEN <<message>> ELSE d
    IN  IF name # "" THEN Append(d1, "[" \o name \o "]") ELSE d1

\* The handler h is called with an exception (lines 90-100): it assigns to the
\* dict `detail` of its closure and answers with the text it holds.
HandleException(h, message, name) ==
    /\ handler_reply.seq < MaxHandled
    /\ detail' = [detail EXCEPT ![h] = DetailAfter(detail[h], message, name)]
    /\ handler_reply' = [seq |-> handler_reply.seq + 1, handler |-> h,
                         message |-> message, name |-> name,
                         status_code |-> StatusCodeOf(h),
                         detail |-> DetailAfter(detail[h], message, name)]
    /\ UNCHANGED <<core, scope, convVars, histVars, managerVars, agentVars>>

NextHandler ==
    \E h \in HandlerNames, m \in ExcMessages, n \in ExcNames : HandleException(h, m, n)

SpecHandler == InitServices /\ [][NextHandler]_vars

\* --------------------------------------- forge: DatabaseSessionManager
ServiceError == "ServiceError"
DisposeError == "DisposeError"

\* The guards of close and connect (lines 29, 37) and of session (line 50).
EngineAbsent(mgr) == ~mgr.engine
SessionmakerAbsent_Mutant(mgr) == FALSE
SessionmakerAbsent(mgr) == ~mgr.sessionmaker

NextDbSession ==
    CHOOSE i \in DbSessionIds :
        /\ db_sessions[i].state = "unborn"
        /\ \A j \in DbSessionIds : j < i => db_sessions[j].state # "unborn"

MgrReply(c, id, body, raised) ==
    [seq |-> mgr_reply.seq + 1, call |-> c, id |-> id, body |-> body, raised |-> raised]

\* close() (lines 28-33); engine.dispose() may raise, and then the two
\* assignments after it do not run.
MgrClose(dispose_ok) ==
    /\ mgr_reply.seq < MaxMgrCalls
    /\ IF EngineAbsent(sessionmanager)
         THEN /\ mgr_reply' = MgrReply("close", 0, "", ServiceError)
              /\ UNCHANGED sessionmanager
         ELSE IF dispose_ok
         THEN /\ sessionmanager' = [engine |-> FALSE, sessionmaker |-> FALSE]
              /\ mgr_reply' = MgrReply("close", 0, "", "")
         ELSE /\ mgr_reply' = MgrReply("close", 0, "", DisposeError)
              /\ UNCHANGED sessionmanager
    /\ UNCHANGED <<core, scope, convVars, histVars, handlerVars, db_sessions, agentVars>>

\* lifespan lines 61-62, at shutdown: close() when the engine is still there.
Shutdown(dispose_ok) ==
    /\ ~EngineAbsent(sessionmanager)
    /\ MgrClose(dispose_ok)

\* `async with sessionmanager.session()` is entered (lines 50-55).
MgrSessionEnter ==
    /\ mgr_reply.seq < MaxMgrCalls
    /\ IF SessionmakerAbsent(sessionmanager)
         THEN /\ mgr_reply' = MgrReply("session", 0, "", ServiceError)
              /\ UNCHANGED db_sessions
         ELSE /\ \E i \in DbSessionIds : db_sessions[i].state = "unborn"
              /\ db_sessions' = [db_sessions EXCEPT ![NextDbSession] =
                    [NoDbSession EXCEPT !.state = "open", !.kind = "session"]]
              /\ mgr_reply' = MgrReply("session", NextDbSession, "", "")
    /\ UNCHANGED <<core, scope, convVars, histVars, handlerVars, sessionmanager,
                   agentVars>>

\* The scope of a session ends (lines 56-62): a SQLAlchemyError of the body is
\* answered with rollback and ServiceError, unless the rollback raises; another
\* exception passes; finally closes the session.
MgrSessionExit(id, body, rollback_ok) ==
    /\ mgr_reply.seq < MaxMgrCalls
    /\ db_sessions[id].state = "open" /\ db_sessions[id].kind = "session"
    /\ db_sessions' = [db_sessions EXCEPT ![id] =
          [@ EXCEPT !.state = "closed",
                    !.rollbacks = IF body = "SQLAlchemyError" THEN 1 ELSE 0,
                    !.rolled_back = body = "SQLAlchemyError" /\ rollback_ok,
                    !.closes = 1]]
    /\ mgr_reply' = MgrReply("session_exit", id, body,
          IF body = "ok" THEN ""
          ELSE IF body # "SQLAlchemyError" THEN body
          ELSE IF rollback_ok THEN ServiceError ELSE RollbackError)
    /\ UNCHANGED <<core, scope, convVars, histVars, handlerVars, sessionmanager,
                   agentVars>>

\* `async with sessionmanager.connect()` is entered (lines 37-42).
MgrConnectEnter ==
    /\ mgr_reply.seq < MaxMgrCalls
    /\ IF EngineAbsent(sessionmanager)
         THEN /\ mgr_reply' = MgrReply("connect", 0, "", ServiceError)
              /\ UNCHANGED db_sessions
         ELSE /\ \E i \in DbSessionIds : db_sessions[i].state = "unborn"
              /\ db_sessions' = [db_sessions EXCEPT ![NextDbSession] =
                    [NoDbSession EXCEPT !.state = "open", !.kind = "connection"]]
              /\ mgr_reply' = MgrReply("connect", NextDbSession, "", "")
    /\ UNCHANGED <<core, scope, convVars, histVars, handlerVars, sessionmanager,
                   agentVars>>

\* The scope of a connection ends (lines 40-46): as for a session, and the
\* block of engine.begin() closes the connection on its way out.
MgrConnectExit(id, body, rollback_ok) ==
    /\ mgr_reply.seq < MaxMgrCalls
    /\ db_sessions[id].state = "open" /\ db_sessions[id].kind = "connection"
    /\ db_sessions' = [db_sessions EXCEPT ![id] =
          [@ EXCEPT !.state = "closed",
                    !.rollbacks = IF body = "SQLAlchemyError" THEN 1 ELSE 0,
                    !.rolled_back = body = "SQLAlchemyError" /\ rollback_ok,
                    !.closes = 1]]
    /\ mgr_reply' = MgrReply("connect_exit", id, body,
          IF body = "ok" THEN ""
          ELSE IF body # "SQLAlchemyError" THEN body
          ELSE IF rollback_ok THEN ServiceError ELSE RollbackError)
    /\ UNCHANGED <<core, scope, convVars, histVars, handlerVars, sessionmanager,
                   agentVars>>

NextManager ==
    \/ \E d \in BOOLEAN : MgrClose(d)
    \/ \E d \in BOOLEAN : Shutdown(d)
    \/ MgrSessionEnter
    \/ \E i \in DbSessionIds, b \in BodyOutcomes, r \in BOOLEAN : MgrSessionExit(i, b, r)
    \/ MgrConnectEnter
    \/ \E i \in DbSessionIds, b \in BodyOutcomes, r \in BOOLEAN : MgrConnectExit(i, b, r)

SpecManager == InitServices /\ [][NextManager]_vars

\* ------------------------------------------- apps/api: agents service
AgentNames == {"n1", "n2"}

\* AgentService.get (lines 29-36): the row with this id and this tenant_id.
AgentGetFinds_Mutant(agent_id, tenant_id) == agent_rows[agent_id].present
AgentGetFinds(agent_id, tenant_id) ==
    /\ agent_rows[agent_id].present
    /\ agent_rows[agent_id].tenant_id = tenant_id

\* AgentService.update (lines 72-84): the fields of AgentUpdate are set on the
\* row get returned; tenant_id and id are not among them.
RowsAfterUpdate(agent_id, tenant_id, name) ==
    IF AgentGetFinds(agent_id, tenant_id)
      THEN [agent_rows EXCEPT ![agent_id].name = name]
      ELSE agent_rows

\* AgentService.delete (lines 86-94).
RowsAfterDelete(agent_id, tenant_id) ==
    IF AgentGetFinds(agent_id, tenant_id)
      THEN [agent_rows EXCEPT ![agent_id] = NoAgentRow]
      ELSE agent_rows

\* The result of a service call: get and update return the row or None,
\* delete returns True or False (found).
ServiceReply(operation, agent_id, tenant_id, found) ==
    [NoAgentsReply EXCEPT !.seq = agents_reply.seq + 1, !.operation = operation,
                          !.agent_id = agent_id, !.tenant_id = tenant_id,
                          !.found = found]

\* AgentService.create (lines 18-27): a row with a new id for the tenant.
AgentCreate(agent_id, tenant_id, name) ==
    /\ agents_reply.seq < MaxAgentOps
    /\ ~agent_rows[agent_id].present
    /\ agent_rows' = [agent_rows EXCEPT ![agent_id] =
            [present |-> TRUE, tenant_id |-> tenant_id, name |-> name]]
    /\ agents_reply' = ServiceReply("create", agent_id, tenant_id, TRUE)
    /\ UNCHANGED <<core, scope, convVars, histVars, handlerVars, managerVars>>

AgentGet(agent_id, tenant_id) ==
    /\ agents_reply.seq < MaxAgentOps
    /\ agents_reply' = ServiceReply("get", agent_id, tenant_id,
                                    AgentGetFinds(agent_id, tenant_id))
    /\ UNCHANGED <<core, scope, convVars, histVars, handlerVars, managerVars,
                   agent_rows>>

AgentUpdate(agent_id, tenant_id, name) ==
    /\ agents_reply.seq < MaxAgentOps
    /\ agent_rows' = RowsAfterUpdate(agent_id, tenant_id, name)
    /\ agents_reply' = ServiceReply("update", agent_id, tenant_id,
                                    AgentGetFinds(agent_id, tenant_id))
    /\ UNCHANGED <<core, scope, convVars, histVars, handlerVars, managerVars>>

AgentDelete(agent_id, tenant_id) ==
    /\ agents_reply.seq < MaxAgentOps
    /\ agent_rows' = RowsAfterDelete(agent_id, tenant_id)
    /\ agents_reply' = ServiceReply("delete", agent_id, tenant_id,
                                    AgentGetFinds(agent_id, tenant_id))
    /\ UNCHANGED <<core, scope, convVars, histVars, handlerVars, managerVars>>

\* -------------------------------------------- apps/api: agents router
\* The routes in the order the module declares them (lines 21-106). A path is
\* given by its one segment: "" is "/", and "{agent_id}" is the parameter.
Routes ==
    << [method |-> "GET", path |-> "", handler |-> "list_agents"],
       [method |-> "POST", path |-> "", handler |-> "create_agent"],
       [method |-> "GET", path |-> "{agent_id}", handler |-> "get_agent"],
       [method |-> "PATCH", path |-> "{agent_id}", handler |-> "update_agent"],
       [method |-> "DELETE", path |-> "{agent_id}", handler |-> "delete_agent"],
       [method |-> "GET", path |-> "version", handler |-> "get_arcan_version"] >>

Methods == {"GET", "POST", "PATCH", "DELETE"}
Paths == {"", "version"} \cup AgentIds

\* A route matches a request when the method is its own and the path fits its
\* pattern; the parameter fits any one segment.
RouteMatches(r, method, path) ==
    /\ r.method = method
    /\ IF r.path = "{agent_id}" THEN path # "" ELSE r.path = path

\* The router serves a request with the first route that matches.
Dispatch(method, path) ==
    IF \E i \in 1..Len(Routes) : RouteMatches(Routes[i], method, path)
      THEN Routes[CHOOSE i \in 1..Len(Routes) :
                    /\ RouteMatches(Routes[i], method, path)
                    /\ \A j \in 1..Len(Routes) :
                          RouteMatches(Routes[j], method, path) => i <= j].handler
      ELSE "none"

\* agent_id: UUID in the signature of a handler: a segment that is not a UUID
\* fails the validation of the request.
IsUUID(path) == path \in AgentIds

\* A request to the router, with name as the name its body carries: the
\* handler chosen, the service call it makes for TEMP_TENANT_ID, its status.
Request(method, path, name) ==
    /\ agents_reply.seq < MaxAgentOps
    /\ LET h == Dispatch(method, path)
           byId == h \in {"get_agent", "update_agent", "delete_agent"}
           valid == byId /\ IsUUID(path)
           found == valid /\ AgentGetFinds(path, TEMP_TENANT_ID)
           free == {a \in AgentIds : ~agent_rows[a].present}
           creates == h = "create_agent" /\ free # {}
       IN  /\ h = "create_agent" => free # {}
           /\ agent_rows' =
                 IF h = "update_agent" /\ valid
                   THEN RowsAfterUpdate(path, TEMP_TENANT_ID, name)
                 ELSE IF h = "delete_agent" /\ valid
                   THEN RowsAfterDelete(path, TEMP_TENANT_ID)
                 ELSE IF creates
                   THEN [agent_rows EXCEPT ![CHOOSE a \in free : TRUE] =
                           [present |-> TRUE, tenant_id |-> TEMP_TENANT_ID, name |-> name]]
                 ELSE agent_rows
           /\ agents_reply' =
                 [seq |-> agents_reply.seq + 1,
                  operation |-> IF ~valid THEN "none"
                                ELSE IF h = "get_agent" THEN "get"
                                ELSE IF h = "update_agent" THEN "update" ELSE "delete",
                  agent_id |-> IF valid THEN path ELSE "",
                  tenant_id |-> IF valid THEN TEMP_TENANT_ID ELSE "",
                  found |-> found,
                  method |-> method, path |-> path, handler |-> h,
                  status |-> IF h = "none" THEN 405
                             ELSE IF byId /\ ~valid THEN 422
                             ELSE IF byId /\ ~found THEN 404
                             ELSE 200]
    /\ UNCHANGED <<core, scope, convVars, histVars, handlerVars, managerVars>>

NextAgents ==
    \/ \E a \in AgentIds, t \in Tenants, n \in AgentNames : AgentCreate(a, t, n)
    \/ \E a \in AgentIds, t \in Tenants : AgentGet(a, t)
    \/ \E a \in AgentIds, t \in Tenants, n \in AgentNames : AgentUpdate(a, t, n)
    \/ \E a \in AgentIds, t \in Tenants : AgentDelete(a, t)
    \/ \E m \in Methods, p \in Paths, n \in AgentNames : Request(m, p, n)

SpecAgents == InitServices /\ [][NextAgents]_vars

\* ------------------------------------------------------------- claims
\* Step predicates: turn t makes its get_or_create_agent call; turn t
\* appends to its handle's chat_history; turn t commits its upsert.
TurnGetsAgent(t) == turn[t].pc = "get" /\ turn'[t].pc = "invoke"
TurnInvokes(t) == turn[t].pc \in {"invoke", "infer"} /\ turn'[t].pc # turn[t].pc
TurnCommitsHistory(t) == turn[t].pc = "upsert" /\ turn'[t].stored
CallReturns == n_calls' = n_calls + 1

Contains(T, m) == \E i \in 1..Len(T) : T[i] = m

\* C1: the handle a get_or_create_agent call returns has user_id equal to the
\* user_id asked for, and the registry entry of that user_id refers to it,
\* after any sequence of calls with or without a provided handle.
C1_ReturnedHandleIsTheUsers ==
    [][CallReturns =>
        /\ handle'[call'.result].user_id = call'.user
        /\ agents'[call'.sess][call'.user] = call'.result]_vars

\* C2: in every state at most one live handle carries a given user_id.
C2_OneLiveHandlePerUser ==
    \A h1, h2 \in Handles :
        (/\ IsLive(h1) /\ IsLive(h2)
         /\ handle[h1].user_id # NoUser
         /\ handle[h1].user_id = handle[h2].user_id) => h1 = h2

\* C3: a get_or_create_agent call for a user with no persisted history and no
\* live handle (in any registry) returns a handle whose chat_history is empty.
C3_FreshUserStartsEmpty ==
    [][\A t \in Turns :
        (/\ TurnGetsAgent(t)
         /\ ~chat_history_tbl[turn[t].user].present
         /\ \A h \in Handles : IsLive(h) => handle[h].user_id # turn[t].user)
        => lists'[handle'[turn'[t].agent].chat_history] = <<>>]_vars

\* C4: a turn of user A leaves unchanged the chat_history of every handle
\* registered for another user B.
C4_TurnsTouchOnlyTheirHandle ==
    [][\A t \in Turns : TurnInvokes(t) =>
        \A s \in Sessions, b \in Users \ {turn[t].user} :
            agents[s][b] # NoAgent =>
                lists'[handle[agents[s][b]].chat_history]
                    = lists[handle[agents[s][b]].chat_history]]_vars

\* C5: a get_or_create_agent call for a user with a persisted history H, no
\* live handle in the registry and a load that succeeds creates a new handle,
\* registers it, and its chat_history is exactly H deserialized.
C5_ReloadSeedsExactlyH ==
    [][\A t \in Turns :
        (/\ TurnGetsAgent(t)
         /\ chat_history_tbl[turn[t].user].present
         /\ agents[turn[t].sess][turn[t].user] = NoAgent
         /\ ~turn'[t].load_error)
        => LET h == turn'[t].agent
           IN  /\ h # NoAgent
               /\ handle[h].state = "unborn"
               /\ handle'[h].state = "live"
               /\ handle'[h].user_id = turn[t].user
               /\ agents'[turn[t].sess][turn[t].user] = h
               /\ lists'[handle'[h].chat_history]
                     = Deserialize(chat_history_tbl[turn[t].user].history)]_vars

\* C5 witness: a turn has just been given a handle that was built from the
\* persisted, non-empty history of its user.
C5_Witness ==
    \E t \in Turns :
        /\ turn[t].pc = "invoke"
        /\ ~turn[t].load_error
        /\ handle[turn[t].agent].chat_history = turn[t].agent
        /\ chat_history_tbl[turn[t].user].present
        /\ ChatHistoryOf(turn[t].agent) = GetChatHistory(turn[t].user)
        /\ Len(ChatHistoryOf(turn[t].agent)) >= 3

\* C6: two get_or_create_agent(user_id) calls in succession on one registry,
\* the handle of the first still live at the second, return the same handle.
C6_SecondCallSameHandle ==
    [][(/\ CallReturns
        /\ call.made
        /\ call.provided = NoAgent /\ call'.provided = NoAgent
        /\ call'.sess = call.sess /\ call'.user = call.user
        /\ IsLive(call.result))
       => call'.result = call.result]_vars

\* C6 witness: a call found a live handle in the registry and returned it,
\* the user having no persisted history.
C6_Witness ==
    /\ call.made
    /\ call.provided = NoAgent
    /\ call.before # NoAgent
    /\ call.result = call.before
    /\ ~chat_history_tbl[call.user].present

\* C7: a turn whose inference call succeeds returns the inference response
\* whatever the stores do, and a turn fails only if its inference call fails.
C7_StorageNeverFailsTheTurn ==
    \A t \in Turns :
        /\ (turn[t].inferred /\ turn[t].pc \in {"done", "failed"})
              => turn[t].result = Return(turn[t].response)
        /\ turn[t].pc = "failed" => ~turn[t].inferred

\* C8: when the inference call of a turn raises, the turn fails with that
\* same exception, and a turn makes the inference call at most once.
C8_InferenceErrorPropagatesOnce ==
    \A t \in Turns :
        /\ turn[t].calls <= 1
        /\ turn[t].raised # "" =>
              /\ turn[t].pc = "failed"
              /\ turn[t].result = Raise(turn[t].raised)
              /\ turn[t].calls = 1

\* C8 witness: a turn whose executor raised has failed with that exception.
C8_Witness ==
    \E t \in Turns :
        /\ turn[t].raised \in InferenceErrors
        /\ turn[t].pc = "failed"
        /\ turn[t].result = Raise(turn[t].raised)

\* C9: once every turn of a user has completed and persisted, the persisted
\* history of the user holds the query and the response of each of them.
C9_NoLostUpdate ==
    \A u \in Users :
        LET mine == {t \in Turns : turn[t].user = u}
        IN  (mine # {} /\ \A t \in mine : turn[t].pc = "done" /\ turn[t].stored)
            => \A t \in mine :
                  /\ Contains(GetChatHistory(u), HumanMessage(turn[t].query))
                  /\ Contains(GetChatHistory(u), AIMessage(turn[t].response))

\* C10: every commit of store_chat_history leaves the user's row equal to the
\* serialization that commit carries, so of two commits T1 then T2 the row is
\* T2's: not T1's, not a merge.
C10_LastCommitWins ==
    [][\A t \in Turns : TurnCommitsHistory(t) =>
        /\ chat_history_tbl'[turn[t].user].present
        /\ chat_history_tbl'[turn[t].user].history = turn[t].pickled]_vars

\* C10 witness: two turns of one user have committed different transcripts,
\* and the row is the second one's.
C10_Witness ==
    \E t1, t2 \in Turns :
        /\ t1 # t2
        /\ turn[t1].user = turn[t2].user
        /\ turn[t1].stored /\ turn[t2].stored
        /\ turn[t1].pc = "done" /\ turn[t2].pc = "done"
        /\ turn[t1].pickled # turn[t2].pickled
        /\ Len(turn[t1].pickled.body) < Len(turn[t2].pickled.body)
        /\ chat_history_tbl[turn[t1].user].history = turn[t2].pickled

\* C12: the commit of a turn of a user who had no row leaves a row whose
\* transcript holds the turn's human message and the turn's agent message,
\* and equals the chat_history of the turn's handle at that moment.
C12_PersistedEqualsInMemory ==
    [][\A t \in Turns :
        (TurnCommitsHistory(t) /\ ~chat_history_tbl[turn[t].user].present)
        => LET T == Deserialize(chat_history_tbl'[turn[t].user].history)
           IN  /\ Contains(T, HumanMessage(turn[t].query))
               /\ Contains(T, AIMessage(turn[t].response))
               /\ T = lists'[handle'[turn[t].agent].chat_history]]_vars

\* C14: a get_or_create_agent call whose load of the history fails returns a
\* handle all the same, and when the registry had no live handle for the user
\* that handle is new and its chat_history is empty.
C14_LoadFailureGivesEmptyHandle ==
    [][\A t \in Turns :
        (TurnGetsAgent(t) /\ turn'[t].load_error)
        => LET h == turn'[t].agent
           IN  /\ h # NoAgent
               /\ handle'[h].state = "live"
               /\ agents[turn[t].sess][turn[t].user] = NoAgent
                    => /\ handle[h].state = "unborn"
                       /\ lists'[handle'[h].chat_history] = <<>>]_vars

\* C15 as stated: with a live handle registered for the user and no persisted
\* history, get_or_create_agent(user_id) returns None.
C15_FallThroughReturnsNone ==
    [][(/\ CallReturns
        /\ call'.provided = NoAgent
        /\ call'.before # NoAgent
        /\ ~chat_history_tbl[call'.user].present)
       => call'.result = NoAgent]_vars

\* C15 amended: with a live handle registered for the user and no persisted
\* history, get_or_create_agent(user_id) matches no branch of the chain,
\* registers the live handle again and returns it, its state untouched.
C15_FallThroughReturnsLiveHandle ==
    [][(/\ CallReturns
        /\ call'.provided = NoAgent
        /\ call'.before # NoAgent
        /\ ~chat_history_tbl[call'.user].present)
       => /\ call'.result = call'.before
          /\ call'.result # NoAgent
          /\ agents' = agents
          /\ handle' = handle
          /\ lists' = lists]_vars

\* C15 witness: the latest call found a live handle registered for a user
\* without a row, and that handle is its result and is still registered.
C15_Witness ==
    /\ call.made
    /\ call.provided = NoAgent
    /\ IsLive(call.before)
    /\ call.result = call.before
    /\ agents[call.sess][call.user] = call.result
    /\ ~chat_history_tbl[call.user].present

\* C16: with a live handle registered for the user and a non-empty persisted
\* history, get_or_create_agent(user_id) returns the live handle, and no
\* handle's chat_history changes: the persisted history is neither put in
\* place of the in-memory one nor merged into it.
C16_LiveHandleWinsOverStore ==
    [][(/\ CallReturns
        /\ call'.provided = NoAgent
        /\ call'.before # NoAgent
        /\ chat_history_tbl[call'.user].present
        /\ GetChatHistory(call'.user) # <<>>)
       => /\ call'.result = call'.before
          /\ handle' = handle
          /\ lists' = lists]_vars

\* C16 witness: the latest call returned the live handle it found, whose
\* chat_history differs from the non-empty persisted history of the user.
C16_Witness ==
    /\ call.made
    /\ call.provided = NoAgent
    /\ IsLive(call.before)
    /\ call.result = call.before
    /\ chat_history_tbl[call.user].present
    /\ GetChatHistory(call.user) # <<>>
    /\ ChatHistoryOf(call.result) # GetChatHistory(call.user)

\* C17: get_or_create_agent(user_id, provided) returns provided with its
\* user_id set to user_id and registers it under user_id in place of the
\* entry found; every other field of every handle, every list, both tables
\* and every other registry entry stay as they were.
C17_ProvidedHandleIsRegisteredAsIs ==
    [][(CallReturns /\ call'.provided # NoAgent)
       => LET p == call'.provided
          IN  /\ call'.result = p
              /\ handle'[p] = [handle[p] EXCEPT !.user_id = call'.user]
              /\ \A h \in Handles \ {p} : handle'[h] = handle[h]
              /\ lists' = lists
              /\ agents'[call'.sess][call'.user] = p
              /\ \A s \in Sessions, u \in Users :
                    <<s, u>> # <<call'.sess, call'.user>> => agents'[s][u] = agents[s][u]
              /\ chat_history_tbl' = chat_history_tbl
              /\ conversation' = conversation]_vars

\* C17 witness: the latest call was given a handle for a user whose registry
\* entry referred to another handle, and the entry now refers to the one given.
C17_Witness ==
    /\ call.made
    /\ call.provided # NoAgent
    /\ call.before # NoAgent
    /\ call.before # call.provided
    /\ call.result = call.provided
    /\ handle[call.provided].user_id = call.user
    /\ agents[call.sess][call.user] = call.provided

IsPrefix(S, T) == Len(S) <= Len(T) /\ \A i \in 1..Len(S) : T[i] = S[i]

C20_StoresInOrder ==
    [][/\ \A t \in Turns :
            /\ turn'[t].logged => turn'[t].inferred
            /\ turn'[t].pc \in {"pickle", "upsert"} => turn'[t].logged
            /\ turn'[t].stored => turn'[t].logged
            /\ (turn[t].pc = "store_message" /\ turn'[t].pc # "store_message"
                    /\ ~turn'[t].logged)
                 => /\ turn'[t].pc \in {"done", "failed"}
                    /\ ~turn'[t].stored
                    /\ chat_history_tbl' = chat_history_tbl
       /\ \A u \in Users :
            chat_history_tbl'[u] # chat_history_tbl[u]
            => \E t \in Turns : /\ turn[t].pc = "upsert"
                                /\ turn[t].user = u
                                /\ turn[t].logged]_vars

\* C20 witness: a turn whose inference returned and whose store_message
\* raised SQLAlchemyError has returned its response, with nothing stored and
\* its user still without a row.
C20_Witness ==
    \E t \in Turns :
        /\ turn[t].pc = "done"
        /\ turn[t].inferred
        /\ ~turn[t].logged
        /\ ~turn[t].stored
        /\ turn[t].result = Return(turn[t].response)
        /\ ~chat_history_tbl[turn[t].user].present

\* Step predicate: a caller's store_chat_history or get_chat_history call.
OpReturns == n_ops' = n_ops + 1

\* C11: a store_chat_history call that returns leaves one row for its user,
\* whose history is the serialization of the transcript passed, and every
\* other row as it was; repeated with the same transcript it changes
\* nothing; a call that raises, and a get_chat_history call, change no row.
C11_RowIsLastTranscript ==
    [][OpReturns =>
        IF op'.name = "store_chat_history" /\ op'.raised = ""
          THEN /\ chat_history_tbl'[op'.user]
                    = [present |-> TRUE, history |-> Serialize(op'.transcript)]
               /\ \A v \in Users \ {op'.user} :
                     chat_history_tbl'[v] = chat_history_tbl[v]
               /\ (/\ op.name = "store_chat_history" /\ op.raised = ""
                   /\ op.user = op'.user /\ op.transcript = op'.transcript)
                    => chat_history_tbl' = chat_history_tbl
          ELSE chat_history_tbl' = chat_history_tbl]_vars

\* C11 witness: the latest call stored a transcript for a user whose row held
\* another history, and the row now is that transcript's serialization.
C11_Witness ==
    /\ op.name = "store_chat_history"
    /\ op.raised = ""
    /\ op.before.present
    /\ op.before.history # Serialize(op.transcript)
    /\ Len(op.transcript) = MaxLen
    /\ chat_history_tbl[op.user].history = Serialize(op.transcript)

C18_GetChatHistoryNeverRaises ==
    [][(/\ OpReturns
        /\ op'.name = "get_chat_history"
        /\ op'.raised # "SQLAlchemyError"
        /\ ~op'.before.present \/ ~LiteralEvalOk(op'.before.history))
       => /\ op'.raised = ""
          /\ op'.result = <<>>]_vars

\* C18 amended: get_chat_history(user_id), the storage answering, returns []
\* without raising when the user has no row; when the row's history cannot be
\* deserialized it raises, and it changes nothing.
C18_EmptyWithoutRowRaisesOnBadRow ==
    [][(/\ OpReturns
        /\ op'.name = "get_chat_history"
        /\ op'.raised # "SQLAlchemyError")
       => /\ ~op'.before.present => (op'.raised = "" /\ op'.result = <<>>)
          /\ (op'.before.present /\ ~LiteralEvalOk(op'.before.history))
               => op'.raised = "ValueError"
          /\ chat_history_tbl' = chat_history_tbl]_vars

\* C18 witness: the latest get_chat_history call found a row it could not
\* deserialize and raised.
C18_Witness ==
    /\ op.name = "get_chat_history"
    /\ op.before = CorruptRow
    /\ op.raised = "ValueError"

\* ------------------------------------------------------------------ C21
\* A turn in which the inference or a store raised.
Faulted(tr) == tr.raised # "" \/ (tr.inferred /\ tr.result.kind = "raise")

\* C21: GET /api/chat with a user_id and a query answers with status 200 and
\* a body of the form {"response": ...} for every value of ENVIRONMENT: every
\* request that has been answered, and in which neither the inference nor a
\* store raised, was answered with 200 and the response of the turn.
C21_ChatAnswers200Everywhere ==
    \A t \in Turns :
        turn[t].pc \in {"done", "failed"} /\ ~Faulted(turn[t]) =>
            /\ StatusOf(turn[t]) = 200
            /\ BodyOf(turn[t]) = [response |-> turn[t].response]
            /\ turn[t].response # ""

\* ------------------------------------------------------------------ C22
\* C22: when the inference call of a turn fails, the durable stores are
\* unchanged by that turn: no step of a turn whose inference has not returned
\* appends a conversation record or changes the persisted chat history of any
\* user, and a turn whose inference raised has logged and stored nothing.
C22_FailedInferenceLeavesStores ==
    [][\A t \in Turns :
          /\ turn'[t] # turn[t] /\ ~turn'[t].inferred =>
                /\ conversation' = conversation
                /\ chat_history_tbl' = chat_history_tbl
          /\ turn'[t].raised # "" =>
                /\ turn'[t].pc = "failed"
                /\ ~turn'[t].logged /\ ~turn'[t].stored]_vars

\* The executor of one turn raised while the stores hold the record and the
\* history of another turn.
C22_Witness ==
    \E t \in Turns :
        /\ turn[t].pc = "failed" /\ turn[t].raised \in InferenceErrors
        /\ Len(conversation) > 0
        /\ \E u \in Users : chat_history_tbl[u].present
        /\ \E t2 \in Turns \ {t} : turn[t2].logged /\ turn[t2].stored

\* ------------------------------------------------------------------ C23
\* C23: a turn is recorded atomically in the handle's conversation state: when
\* the inference call inside ArcanAgent.invoke fails, the handle's chat_history
\* is the same as before the turn. The query of a turn is in no list before
\* the turn, so when the turn fails in invoke the chat_history of its handle
\* does not hold the human message of the turn.
C23_FailedTurnLeavesChatHistory ==
    [][\A t \in Turns :
        (turn[t].pc \in {"invoke", "infer"} /\ turn'[t].pc = "failed") =>
            ~Contains(lists'[handle'[turn[t].agent].chat_history],
                      HumanMessage(turn[t].query))]_vars

C25_OnlyTheOwnerChangesAConversation ==
    [][(/\ conv_reply'.seq # conv_reply.seq
        /\ conv_reply'.route \in {"update_conversation", "delete_conversation"})
       => LET c == conv_reply'.conversation_id
              row == conversations[c]
          IN  IF row.present /\ row.user_id = conv_reply'.user
                THEN \A i \in RowIds \ {c} : conversations'[i] = conversations[i]
                ELSE /\ conv_reply'.status = IF row.present THEN 403 ELSE 404
                     /\ conversations' = conversations]_vars

\* ------------------------------------------------------------------ C26
\* C26: after any sequence of the forge chat-history operations (create,
\* update, delete) for any users, the chat_history table holds at most one row
\* per user_id, so ChatHistoryRepository.get_chat_history(user_id) returns no
\* row or that single row and never fails because several rows match.
C26_AtMostOneRowPerUser ==
    /\ \A u \in ForgeUsers : Cardinality(RowsOf(u)) <= 1
    /\ hist_reply.error # "MultipleResultsFound"

\* ------------------------------------------------------------------ C27
\* C27: the response of a handler built with create_exception_handler depends
\* only on status_code, initial_detail and the exception being handled:
\* whatever was handled before, the detail text is the one the handler gives
\* when the exception is the first it handles.
C27_ResponseDependsOnTheExceptionOnly ==
    handler_reply.seq > 0 =>
        /\ handler_reply.status_code = StatusCodeOf(handler_reply.handler)
        /\ handler_reply.detail =
              DetailAfter(<<InitialDetailOf(handler_reply.handler)>>,
                          handler_reply.message, handler_reply.name)

\* ------------------------------------------------------------------ C28
\* The manager after a close() that completed.
Closed == ~sessionmanager.engine /\ ~sessionmanager.sessionmaker
MgrCalled(c) == mgr_reply'.seq # mgr_reply.seq /\ mgr_reply'.call = c

\* Once close() has completed the engine and the session factory stay absent,
\* session(), connect() and close() fail with ServiceError, and no session or
\* connection is handed out.
AfterCloseNothingIsHandedOut ==
    /\ sessionmanager.engine <=> sessionmanager.sessionmaker
    /\ Closed =>
          /\ sessionmanager' = sessionmanager
          /\ \A c \in {"session", "connect", "close"} :
                MgrCalled(c) => mgr_reply'.raised = ServiceError
          /\ \A i \in DbSessionIds :
                db_sessions[i].state = "unborn" => db_sessions'[i].state = "unborn"
    /\ \A i \in DbSessionIds :
          (db_sessions[i].state = "unborn" /\ db_sessions'[i].state = "open") => ~Closed

\* C28, as stated: the lifecycle above, and every session handed out by
\* session() is closed when its scope exits, and is rolled back and reported
\* as ServiceError when the scope raises a SQLAlchemyError.
C28_LifecycleReportsServiceError ==
    [][/\ AfterCloseNothingIsHandedOut
       /\ MgrCalled("session_exit") =>
             LET s == db_sessions'[mgr_reply'.id] IN
                 /\ s.state = "closed" /\ s.closes = 1
                 /\ mgr_reply'.body = "SQLAlchemyError" =>
                       /\ s.rollbacks = 1 /\ s.rolled_back
                       /\ mgr_reply'.raised = ServiceError]_vars

\* C28, amended: the lifecycle above, and every session handed out by
\* session() is closed exactly once when its scope exits; when the scope
\* raises a SQLAlchemyError rollback is called once, and the scope reports
\* ServiceError when the rollback succeeds and the rollback's own exception
\* when it raises; any other exception of the scope passes unchanged and
\* without a rollback.
C28_LifecycleAndScopeExit ==
    [][/\ AfterCloseNothingIsHandedOut
       /\ MgrCalled("session_exit") =>
             LET s == db_sessions'[mgr_reply'.id] IN
                 /\ s.state = "closed" /\ s.closes = 1
                 /\ mgr_reply'.body = "SQLAlchemyError" =>
                       /\ s.rollbacks = 1
                       /\ mgr_reply'.raised =
                             IF s.rolled_back THEN ServiceError ELSE RollbackError
                 /\ mgr_reply'.body # "SQLAlchemyError" =>
                       /\ s.rollbacks = 0
                       /\ mgr_reply'.raised =
                             IF mgr_reply'.body = "ok" THEN "" ELSE mgr_reply'.body]_vars

\* C28 witness: close() has completed, a session() call after it failed with
\* ServiceError, and a session handed out before it was rolled back and closed.
C28_Witness ==
    /\ Closed
    /\ mgr_reply.call = "session" /\ mgr_reply.raised = ServiceError
    /\ \E i \in DbSessionIds :
          /\ db_sessions[i].state = "closed" /\ db_sessions[i].kind = "session"
          /\ db_sessions[i].rollbacks = 1 /\ db_sessions[i].closes = 1

\* ------------------------------------------------------------------ C29
\* C29: tenant isolation in AgentService: get, update and delete called with
\* tenant_id t never return, modify or delete an agent whose tenant_id differs
\* from t; for such an agent (or a missing one) get and update return None,
\* delete returns False, and the set of stored agents is unchanged.
C29_TenantIsolation ==
    [][(/\ agents_reply'.seq # agents_reply.seq
        /\ agents_reply'.operation \in {"get", "update", "delete"})
       => LET a == agents_reply'.agent_id
              t == agents_reply'.tenant_id
          IN  /\ \A b \in AgentIds :
                    (agent_rows[b].present /\ agent_rows[b].tenant_id # t)
                        => agent_rows'[b] = agent_rows[b]
              /\ ~(agent_rows[a].present /\ agent_rows[a].tenant_id = t) =>
                    /\ ~agents_reply'.found
                    /\ agent_rows' = agent_rows]_vars

\* C29 witness: an update or a delete for an agent of another tenant found
\* nothing and the agent is still stored.
C29_Witness ==
    /\ agents_reply.operation \in {"update", "delete"}
    /\ ~agents_reply.found
    /\ agent_rows[agents_reply.agent_id].present
    /\ agent_rows[agents_reply.agent_id].tenant_id # agents_reply.tenant_id

\* ------------------------------------------------------------------ C30
\* C30: a GET request to the agents router's /version path is served by
\* get_arcan_version and answers with the versions; it is not captured by the
\* /{agent_id} route that is declared before it.
C30_VersionIsServed ==
    (agents_reply.method = "GET" /\ agents_reply.path = "version") =>
        /\ agents_reply.handler = "get_arcan_version"
        /\ agents_reply.status = 200

====
